---------------------------- MODULE Spec2Model ----------------------------
(***************************************************************************)
(* Model of e3.vcs.git.GitRepository (src/src/e3/vcs/git.py): the command  *)
(* runner git_cmd, the repository operations built on it, and the          *)
(* parse_log generator (framer, to_commit decoder, diff capture).          *)
(*                                                                         *)
(* Text read from a log stream is a sequence of one-character strings, so  *)
(* that lengths, line boundaries and separators are computed, not assumed. *)
(* Command words are TLA+ strings.  A Python value that may be None is a   *)
(* tagged record: PyNone, PyStr(s), PyDict(f).                             *)
(***************************************************************************)
EXTENDS Integers, Sequences, FiniteSets, TLC

\* ------------------------------------------------------------------------
\* Bounds of the model
\* ------------------------------------------------------------------------
MaxPieces == 2
MaxDiffLen == 2
MaxDiffSize == 1

\* ------------------------------------------------------------------------
\* Python values
\* ------------------------------------------------------------------------
PyNone == [kind |-> "None"]
PyStr(s) == [kind |-> "str", val |-> s]
PyDict(f) == [kind |-> "dict", val |-> f]

NL == "\n"
CR == "\r"
SP == " "
Whitespace == {" ", "\n", "\r", "\t"}

\* module constants of git.py; an output destination is named, not numbered
GIT_LOG_STREAM == "GIT_LOG_STREAM"
PIPE == "PIPE"
HEAD == "HEAD"
FETCH_HEAD == "FETCH_HEAD"

\* ------------------------------------------------------------------------
\* str methods used by parse_log, on sequences of characters
\* ------------------------------------------------------------------------
SetMin(S) == CHOOSE m \in S : \A n \in S : m <= n
SetMax(S) == CHOOSE m \in S : \A n \in S : m >= n

\* s[from:] as a sequence
Drop(s, n) == SubSeq(s, n + 1, Len(s))
Take(s, n) == SubSeq(s, 1, IF n < Len(s) THEN n ELSE Len(s))

\* str.find: the first index (1-based) at which pat occurs in s, 0 if none
Find(s, pat) ==
  LET I == {i \in 1..(Len(s) - Len(pat) + 1) : SubSeq(s, i, i + Len(pat) - 1) = pat}
  IN IF I = {} THEN 0 ELSE SetMin(I)

\* str.startswith
StartsWith(s, prefix) ==
  Len(s) >= Len(prefix) /\ SubSeq(s, 1, Len(prefix)) = prefix

\* "not line.strip()": only whitespace, or empty
IsBlank(s) == \A i \in 1..Len(s) : s[i] \in Whitespace

\* str.strip() on both ends
Strip(s) ==
  LET I == {i \in 1..Len(s) : s[i] \notin Whitespace}
  IN IF I = {} THEN <<>> ELSE SubSeq(s, SetMin(I), SetMax(I))

\* line.rsplit(None, 1)[1]: the last whitespace-delimited word of a line that
\* holds at least two words
LastWord(s) ==
  LET t == Strip(s)
      W == {i \in 1..Len(t) : t[i] \in Whitespace}
  IN IF W = {} THEN t ELSE SubSeq(t, SetMax(W) + 1, Len(t))

Digits == <<"0", "1", "2", "3", "4", "5", "6", "7", "8", "9">>
IsDigit(c) == \E d \in 1..10 : Digits[d] = c
DigitVal(c) == (CHOOSE d \in 1..10 : Digits[d] = c) - 1

RECURSIVE DecVal(_)
DecVal(ds) ==
  IF ds = <<>> THEN 0
  ELSE 10 * DecVal(SubSeq(ds, 1, Len(ds) - 1)) + DigitVal(ds[Len(ds)])

\* int(word): [ok, val]; ok = FALSE stands for ValueError
PyInt(w) ==
  LET signed == Len(w) > 0 /\ w[1] \in {"-", "+"}
      ds == IF signed THEN Tail(w) ELSE w
  IN IF ds # <<>> /\ \A i \in 1..Len(ds) : IsDigit(ds[i])
     THEN [ok |-> TRUE,
           val |-> IF signed /\ w[1] = "-" THEN 0 - DecVal(ds) ELSE DecVal(ds)]
     ELSE [ok |-> FALSE, val |-> 0]

\* str.replace(c, "")
Remove(s, c) == SelectSeq(s, LAMBDA x : x # c)

\* str.split(sep, maxsplit): the list of pieces
RECURSIVE Split(_, _, _)
Split(s, sep, maxsplit) ==
  LET i == Find(s, sep)
  IN IF maxsplit = 0 \/ i = 0 THEN <<s>>
     ELSE <<SubSeq(s, 1, i - 1)>> \o Split(Drop(s, i + Len(sep) - 1), sep, maxsplit - 1)

\* str.splitlines() for text whose only line boundary is "\n"
SplitLines(s) ==
  LET p == Split(s, <<NL>>, Len(s))
  IN IF p[Len(p)] = <<>> THEN SubSeq(p, 1, Len(p) - 1) ELSE p

\* TextIO.readline() at offset pos: through the next "\n", or to the end
ReadLine(s, pos) ==
  LET rest == Drop(s, pos)
      i == Find(rest, <<NL>>)
  IN IF i = 0 THEN rest ELSE SubSeq(rest, 1, i)

\* variant: one character short
ReadShort(s, pos, n) == Take(Drop(s, pos), n - 1)

\* TextIO.read(n) at offset pos
Read(s, pos, n) == Take(Drop(s, pos), n)

\* ------------------------------------------------------------------------
\* to_commit: the record decoder (lines 298-320)
\* ------------------------------------------------------------------------
\* variant: lines without ": " skipped, the others kept
NotesDictPartial(raw) ==
  LET lines == SplitLines(raw)
      item(i) == Split(lines[i], <<":", SP>>, 1)
      Good == {i \in 1..Len(lines) : Len(item(i)) = 2}
      Keys == {item(i)[1] : i \in Good}
      last(k) == SetMax({i \in Good : item(i)[1] = k})
  IN PyDict([k \in Keys |-> item(last(k))[2]])

\* dict(notes_line.split(": ", 1) for notes_line in notes.splitlines()),
\* with the ValueError of a one-element item caught: notes = None
NotesDict(raw) ==
  LET lines == SplitLines(raw)
      item(i) == Split(lines[i], <<":", SP>>, 1)
      Keys == {item(i)[1] : i \in 1..Len(lines)}
      last(k) == SetMax({i \in 1..Len(lines) : item(i)[1] = k})
  IN IF \E i \in 1..Len(lines) : Len(item(i)) # 2
     THEN PyNone
     ELSE PyDict([k \in Keys |-> item(last(k))[2]])

\* variant: zip in place of zip_longest, so that a field without header line
\* gets no key
FieldsZip(headers, body) ==
  LET hl == Split(Remove(headers, CR), <<NL>>, 3)
      names == <<"sha", "email", "date", "notes">>
      Given == {names[i] : i \in 1..Len(hl)}
      at(name) == CHOOSE i \in 1..4 : names[i] = name
  IN [name \in Given \cup {"message"} |->
        IF name = "message" THEN PyStr(body)
        ELSE IF name = "notes" /\ hl[4] # <<>> THEN NotesDict(hl[4])
        ELSE PyStr(hl[at(name)])]

\* the split of a record's header part into its fields
Fields(headers, body) ==
  LET hl == Split(Remove(headers, CR), <<NL>>, 3)
      field(i) == IF i <= Len(hl) THEN PyStr(hl[i]) ELSE PyNone
      raw == field(4)
  IN [sha |-> field(1),
      email |-> field(2),
      date |-> field(3),
      notes |-> IF raw # PyNone /\ raw.val # <<>> THEN NotesDict(raw.val) ELSE raw,
      message |-> PyStr(body)]

\* variant: str.partition in place of the unpacked split, so that a payload
\* without separator is all headers and an empty body
DecodeLenient(object_content) ==
  LET parts == Split(object_content, <<NL, NL>>, 1)
  IN [ok |-> TRUE,
      result |-> Fields(parts[1], IF Len(parts) = 2 THEN parts[2] ELSE <<>>)]

\* object_content.split("\n\n", 1) unpacked into two names: ok = FALSE
\* stands for the ValueError of the unpacking
Decode(object_content) ==
  LET parts == Split(object_content, <<NL, NL>>, 1)
  IN IF Len(parts) # 2
     THEN [ok |-> FALSE, result |-> PyNone]
     ELSE [ok |-> TRUE, result |-> Fields(parts[1], parts[2])]

\* result["diff"] = ...
WithDiff(r, d) ==
  [sha |-> r.sha, email |-> r.email, date |-> r.date, notes |-> r.notes,
   message |-> r.message, diff |-> d]

HasDiff(r) == "diff" \in DOMAIN r

\* ------------------------------------------------------------------------
\* The wire format written by "git log --log-size --format=..."
\* ------------------------------------------------------------------------
LogSizePrefix == <<"l", "o", "g", SP, "s", "i", "z", "e", SP>>

RECURSIVE IntToDec(_)
IntToDec(n) ==
  IF n < 10 THEN <<Digits[n + 1]>>
  ELSE IntToDec(n \div 10) \o <<Digits[(n % 10) + 1]>>

RECURSIVE NotesLines(_, _)
NotesLines(f, Keys) ==
  IF Keys = {} THEN <<>>
  ELSE LET k == CHOOSE x \in Keys : TRUE
       IN k \o <<":", SP>> \o f[k] \o <<NL>> \o NotesLines(f, Keys \ {k})

\* <sha>\n<email>\n<date>\n[<notes-line>\n...]\n<message body>
Payload(r) ==
  r.sha.val \o <<NL>> \o r.email.val \o <<NL>> \o r.date.val \o <<NL>>
  \o (IF r.notes = PyNone THEN <<>> ELSE NotesLines(r.notes.val, DOMAIN r.notes.val))
  \o <<NL>> \o r.message.val

SizeLine(n) == LogSizePrefix \o IntToDec(n) \o <<NL>>

\* log size <N>, the N characters of the payload, the blank separator line
Frame(payload) == SizeLine(Len(payload)) \o payload \o <<NL>>

\* ------------------------------------------------------------------------
\* The environment: what the collaborators may answer
\* ------------------------------------------------------------------------
UnixGit == "/usr/bin/git"
WinGit == "C:\\Git\\git.exe"
\* e3.os.process.which("git", default=None)
WhichResults == {PyNone, PyStr(UnixGit), PyStr(WinGit)}
\* Run.status of a finished child process
Statuses == {0, 1, -9}
\* Run.out of a child whose output is captured
Outs == {<<"v", "1", NL>>, <<>>}
WorkingTrees == {"/r1", "/r2"}
\* the handle parse_log is called on, and the max_diff_size it is given
ParseTrees == {"/r1"}
MaxDiffSizes == {0 - 1, 0, MaxDiffSize}
Url == "ssh://host/repo"

\* e3.os.fs.unixpath: the path with forward slashes
unixpath(path) == IF path = WinGit THEN "C:/Git/git.exe" ELSE path

\* e3.os.process.command_line_image: the words of the command, space-separated
RECURSIVE command_line_image(_)
command_line_image(p_cmd) ==
  IF Len(p_cmd) = 0 THEN ""
  ELSE IF Len(p_cmd) = 1 THEN p_cmd[1]
  ELSE p_cmd[1] \o " " \o command_line_image(Tail(p_cmd))

\* os.path.join
PathJoin(a, b) == a \o "/" \o b

\* ------------------------------------------------------------------------
\* git_cmd: the command runner (lines 109-148)
\* ------------------------------------------------------------------------
GitError(message, origin, process) ==
  [type |-> "GitError", message |-> message, origin |-> origin, process |-> process]

\* "{} failed (exit status: {})".format(command_line_image(p_cmd), p.status)
FailedMessage(p_cmd, status) ==
  command_line_image(p_cmd) \o " failed (exit status: " \o ToString(status) \o ")"

\* variant: the list handed over as it is, absent entries included
BuildCmdUnfiltered(binary, cmd) ==
  <<binary>> \o [i \in 1..Len(cmd) |-> IF cmd[i] = PyNone THEN "None" ELSE cmd[i].val]

\* p_cmd = [arg for arg in cmd if arg is not None]; p_cmd.insert(0, git)
BuildCmd(binary, cmd) ==
  LET args == SelectSeq(cmd, LAMBDA arg : arg # PyNone)
  IN <<binary>> \o [i \in 1..Len(args) |-> args[i].val]

\* variant: only positive exit statuses taken as failures
FailedPositiveOnly(status) == status > 0

\* if p.status != 0: raise GitError(...)
Failed(status) == status # 0

\* variant: the binary looked up by every call
ResolvesAlways(cached) == TRUE

\* if self.__class__.git is None: the call looks the binary up
Resolves(cached) == cached = PyNone

\* variant: the bare command name used when the lookup finds nothing
ResolvedOrDefault(cached, found) ==
  IF cached # PyNone THEN cached
  ELSE IF found = PyNone THEN PyStr("git")
  ELSE PyStr(unixpath(found.val))

\* the class attribute git after lines 127-131: the cached path, or the path
\* which() found in unix form; PyNone when it found nothing (GitError raised)
Resolved(cached, found) ==
  IF ~Resolves(cached) THEN cached
  ELSE IF found = PyNone THEN PyNone
  ELSE PyStr(unixpath(found.val))

\* One call of git_cmd on the handle of working_tree, with the class attribute
\* git = cached; found, status and out are the environment's answers.  The
\* result holds the new class attribute, the events of the call (its entry, a
\* resolution of the binary, a process launch) and either the process p or the
\* error.
git_cmd(working_tree, step, cached, found, status, out) ==
  LET resolving == Resolves(cached)
      binary == Resolved(cached, found)
      which == <<[e |-> "git_cmd", self |-> working_tree, cmd |-> step.cmd]>>
               \o (IF resolving THEN <<[e |-> "which", found |-> found]>> ELSE <<>>)
      output == IF step.output = GIT_LOG_STREAM THEN "log_stream" ELSE step.output
      p_cmd == BuildCmd(binary.val, step.cmd)
      p == [e |-> "run", cmd |-> p_cmd, cwd |-> working_tree, output |-> output,
            error |-> step.error, status |-> status,
            out |-> IF output = PIPE THEN PyStr(out) ELSE PyNone]
  IN IF binary = PyNone
     THEN [git |-> PyNone, events |-> which, raised |-> TRUE,
           value |-> GitError("cannot find git", "git_cmd", PyNone)]
     ELSE [git |-> binary, events |-> which \o <<p>>, raised |-> Failed(status),
           value |-> IF Failed(status)
                     THEN GitError(FailedMessage(p_cmd, status), "git_cmd", p)
                     ELSE p]

\* ------------------------------------------------------------------------
\* The repository operations: each is the sequence of steps its body takes
\* ------------------------------------------------------------------------
S(word) == PyStr(word)
Git(cmd, output, error) == [t |-> "git_cmd", cmd |-> cmd, output |-> output, error |-> error]
Mkdir(path) == [t |-> "mkdir", path |-> path]
SyncTree(source, target, ignore) ==
  [t |-> "sync_tree", source |-> source, target |-> target, ignore |-> ignore]

init(working_tree, url, remote) ==
  <<Mkdir(working_tree),
    Git(<<S("init"), S("-q")>>, GIT_LOG_STREAM, "default"),
    Mkdir(PathJoin(PathJoin(PathJoin(working_tree, ".git"), "logs"), "refs"))>>
  \o (IF url # PyNone
      THEN <<Git(<<S("remote"), S("add"), remote, url>>, GIT_LOG_STREAM, "default")>>
      ELSE <<>>)

checkout(branch, force) ==
  <<Git(<<S("checkout"), S("-q"), IF force THEN S("-f") ELSE PyNone, branch>>,
        GIT_LOG_STREAM, "default")>>

describe(commit) ==
  <<Git(<<S("describe"), S("--always"), commit>>, PIPE, "default")>>

write_local_diff(stream) ==
  <<Git(<<S("--no-pager"), S("diff")>>, stream, "log_stream")>>

write_diff(stream, commit) ==
  <<Git(<<S("--no-pager"), S("diff-tree"), S("--cc"), S("--no-commit-id"),
          S("--root"), commit>>, stream, "log_stream")>>

fetch(url, refspec) ==
  <<Git(<<S("fetch"), url, refspec>>, GIT_LOG_STREAM, "default")>>

\* variant: the two commands in the other order
updateCheckoutFirst(url, refspec, force) ==
  checkout(S(FETCH_HEAD), force) \o fetch(url, refspec)

update(url, refspec, force) ==
  fetch(url, refspec) \o checkout(S(FETCH_HEAD), force)

fetch_gerrit_notes(url) ==
  fetch(url, S("refs/notes/review:refs/notes/review"))

write_log(stream, max_count, rev_range, with_gerrit_notes) ==
  <<Git(<<S("log"),
          S("--format=format:%H%n%aE%n%ci%n"
            \o (IF with_gerrit_notes THEN "%N%n" ELSE "") \o "%n%B"),
          S("--log-size"),
          IF max_count # 0 THEN S("--max-count=" \o ToString(max_count)) ELSE PyNone,
          IF with_gerrit_notes THEN S("--show-notes=review") ELSE PyNone,
          rev_range>>, stream, "None")>>

rev_parse(refspec) ==
  <<Git(<<S("rev-parse"), S("--revs-only"), refspec>>, PIPE, PIPE)>>

\* variant: the commit made before the identity is configured
createCommitFirst(repo_path, initial_content_path) ==
  init(repo_path, PyNone, S("origin"))
  \o (IF initial_content_path # PyNone
      THEN <<SyncTree(initial_content_path.val, repo_path, <<".git">>),
             Git(<<S("add"), S("-A")>>, GIT_LOG_STREAM, "default"),
             Git(<<S("commit"), S("-m"), S("initial content")>>,
                 GIT_LOG_STREAM, "default"),
             Git(<<S("config"), S("user.email"), S("e3-core@example.net")>>,
                 GIT_LOG_STREAM, "default"),
             Git(<<S("config"), S("user.name"), S("e3 core")>>,
                 GIT_LOG_STREAM, "default")>>
      ELSE <<>>)

create(repo_path, initial_content_path) ==
  init(repo_path, PyNone, S("origin"))
  \o (IF initial_content_path # PyNone
      THEN <<SyncTree(initial_content_path.val, repo_path, <<".git">>),
             Git(<<S("add"), S("-A")>>, GIT_LOG_STREAM, "default"),
             Git(<<S("config"), S("user.email"), S("e3-core@example.net")>>,
                 GIT_LOG_STREAM, "default"),
             Git(<<S("config"), S("user.name"), S("e3 core")>>,
                 GIT_LOG_STREAM, "default"),
             Git(<<S("commit"), S("-m"), S("initial content")>>,
                 GIT_LOG_STREAM, "default")>>
      ELSE <<>>)

\* ------------------------------------------------------------------------
\* parse_log: the framer (lines 351-363)
\* ------------------------------------------------------------------------
\* One turn of the "while True" loop up to the yield, from offset pos:
\*   exit = "return"      size_to_read <= 0, the generator ends
\*   exit = "ValueError"  int() refused the word after "log size "
\*   exit = "frame"       content holds what stream.read(size_to_read) gave
\* pos is the offset after the turn's reads, line the line that was examined.
\* variant: the test written "< 0"
EndOfLogNegativeOnly(size_to_read) == size_to_read < 0

\* if size_to_read <= 0: return
EndOfLog(size_to_read) == size_to_read <= 0

\* variant: the separator line after the payload read together with it
NextFrameEager(text, pos0, carried) ==
  LET first == ReadLine(text, pos0)
      pos1 == pos0 + Len(first)
      skip == IsBlank(first)
      line == IF skip THEN ReadLine(text, pos1) ELSE first
      pos2 == IF skip THEN pos1 + Len(line) ELSE pos1
      sized == StartsWith(line, LogSizePrefix)
      n == PyInt(LastWord(line))
      size_to_read == IF sized THEN n.val ELSE carried
      content == Read(text, pos2, size_to_read)
      pos3 == pos2 + Len(content)
  IN IF sized /\ ~n.ok
     THEN [exit |-> "ValueError", line |-> line, pos |-> pos2, size |-> 0,
           content |-> <<>>]
     ELSE IF EndOfLog(size_to_read)
     THEN [exit |-> "return", line |-> line, pos |-> pos2, size |-> size_to_read,
           content |-> <<>>]
     ELSE [exit |-> "frame", line |-> line,
           pos |-> pos3 + Len(ReadLine(text, pos3)),
           size |-> size_to_read, content |-> content]

\* variant: the size of the frame just yielded kept for the next turn
AfterYieldKept(size) == size

\* size_to_read = 0, before the loop (line 351) and after each yield (line 363)
AfterYield(size) == 0

\* carried is size_to_read as the turn begins
NextFrame(text, pos0, carried) ==
  LET first == ReadLine(text, pos0)
      pos1 == pos0 + Len(first)
      skip == IsBlank(first)
      line == IF skip THEN ReadLine(text, pos1) ELSE first
      pos2 == IF skip THEN pos1 + Len(line) ELSE pos1
      sized == StartsWith(line, LogSizePrefix)
      n == PyInt(LastWord(line))
      size_to_read == IF sized THEN n.val ELSE carried
      content == Read(text, pos2, size_to_read)
  IN IF sized /\ ~n.ok
     THEN [exit |-> "ValueError", line |-> line, pos |-> pos2, size |-> 0,
           content |-> <<>>]
     ELSE IF EndOfLog(size_to_read)
     THEN [exit |-> "return", line |-> line, pos |-> pos2, size |-> size_to_read,
           content |-> <<>>]
     ELSE [exit |-> "frame", line |-> line, pos |-> pos2 + Len(content),
           size |-> size_to_read, content |-> content]

\* ------------------------------------------------------------------------
\* parse_log: diff capture (lines 322-347)
\* ------------------------------------------------------------------------
\* variant: the test written ">= 0"
DiffWantedAtZero(max) == max >= 0

\* if max_diff_size > 0
DiffWanted(max) == max > 0

TooLong == <<NL, ".", ".", ".", SP, "d", "i", "f", "f", SP, "t", "o", "o", SP,
             "l", "o", "n", "g", SP, ".", ".", ".", NL>>

\* e3.text.bytes_as_str on the bytes a diff is made of here
ByteChar(b) == IF b = 100 THEN "d" ELSE IF b = 43 THEN "+" ELSE NL
bytes_as_str(content) == [i \in 1..Len(content) |-> ByteChar(content[i])]

\* characters of a header field as one command word
RECURSIVE Text(_)
Text(chars) == IF chars = <<>> THEN "" ELSE chars[1] \o Text(Tail(chars))

\* content = f.read(max_diff_size); result["diff"] = bytes_as_str(content);
\* if diff_size > max_diff_size: result["diff"] += "\n... diff too long ...\n"
\* variant: the comparison written ">="
TruncatedAtEqual(size, max) == size >= max

\* if diff_size > max_diff_size
Truncated(size, max) == size > max
DiffText(file, size, max) ==
  bytes_as_str(Take(file, max)) \o (IF Truncated(size, max) THEN TooLong ELSE <<>>)

\* the bytes a diff-tree process may write before it exits with status 0; one
\* that fails is taken to have written nothing (what it wrote is never read)
DiffOfLen(n) == [i \in 1..n |-> IF i % 3 = 1 THEN 100 ELSE IF i % 3 = 2 THEN 43 ELSE 10]
DiffBytes == {DiffOfLen(n) : n \in 0..MaxDiffLen}

ValueError(where) == [type |-> "ValueError", origin |-> where]
OSError(where) == [type |-> "OSError", origin |-> where]
FSError(where) == [type |-> "FSError", origin |-> where]
NoError == [type |-> "none"]

\* ------------------------------------------------------------------------
\* Log streams handed to parse_log: up to MaxPieces pieces, each a well-formed
\* frame of a commit record or a piece of some other shape
\* ------------------------------------------------------------------------
Shas == {<<"a">>, <<"b">>}
Emails == {<<>>, <<"e">>}
Dates == {<<"d">>}
\* the review notes attached to a commit: commit "b" has some, commit "a" none
NotesOf(sha) == IF sha = <<"b">> THEN PyDict(<<"k">> :> <<"v">>) ELSE PyNone
Messages == {<<"m", NL, NL, "n">>}

Records ==
  {[sha |-> PyStr(s), email |-> PyStr(e), date |-> PyStr(d), notes |-> NotesOf(s),
    message |-> PyStr(m)] :
     s \in Shas, e \in Emails, d \in Dates, m \in Messages}

Piece(kind, rec, text) == [kind |-> kind, rec |-> rec, text |-> text]

FramePieces == {Piece("frame", r, Frame(Payload(r))) : r \in Records}

\* a frame whose notes block has a line without ": "
BadNotesRec == [sha |-> PyStr(<<"a">>), email |-> PyStr(<<"e">>), date |-> PyStr(<<"d">>),
                notes |-> PyNone, message |-> PyStr(<<"m">>)]
BadNotesBlocks == {<<"k", ":", SP, "v", NL, "x", ":", NL>>}
BadNotesPayload(raw) ==
  <<"a", NL, "e", NL, "d", NL>> \o raw \o <<NL, "m">>
BadNotesPieces ==
  {Piece("badnotes", BadNotesRec, Frame(BadNotesPayload(raw))) : raw \in BadNotesBlocks}

\* other shapes: a blank line, "log size 0", a line that is no size line, a
\* payload without blank-line separator, sizes int() refuses or that are negative
NoSepPayload == <<"a", NL, "e", NL, "d">>
\* payloads whose header part has two lines, and five (two of them notes)
TwoHeadersPayload == <<"a", NL, "e", NL, NL, "m">>
TwoNotesPayload ==
  <<"b", NL, "e", NL, "d", NL, "k", ":", SP, "v", NL, "j", ":", SP, "w", NL, NL, "m">>
\* a frame whose size line declares four characters of a payload of five
UnderDeclared == SizeLine(4) \o <<"a", NL, NL, "m", "x", NL>>
RawPieces ==
  {Piece("blank", PyNone, <<NL>>),
   Piece("zero", PyNone, SizeLine(0)),
   Piece("text", PyNone, <<"x", NL>>),
   Piece("nosep", PyNone, Frame(NoSepPayload)),
   Piece("badsize", PyNone, LogSizePrefix \o <<"x", NL>>),
   Piece("negative", PyNone, LogSizePrefix \o <<"-", "1", NL>>)}

Pieces == FramePieces \cup BadNotesPieces \cup RawPieces

PieceLists == UNION {[1..n -> Pieces] : n \in 0..MaxPieces}

RECURSIVE Concat(_)
Concat(ps) == IF ps = <<>> THEN <<>> ELSE Head(ps).text \o Concat(Tail(ps))

\* the stream of the documented scenario: the line "log size <declared>", the
\* payload "abc123\nuser@example.org\n2024-01-01 00:00:00 +0000\n\nHello\nWorld",
\* a blank separator line, the line "log size 0"
ScenarioSha == <<"a", "b", "c", "1", "2", "3">>
ScenarioEmail == <<"u", "s", "e", "r", "@", "e", "x", "a", "m", "p", "l", "e", ".",
                   "o", "r", "g">>
ScenarioDate == <<"2", "0", "2", "4", "-", "0", "1", "-", "0", "1", SP,
                  "0", "0", ":", "0", "0", ":", "0", "0", SP, "+", "0", "0", "0", "0">>
ScenarioMessage == <<"H", "e", "l", "l", "o", NL, "W", "o", "r", "l", "d">>
ScenarioRec == [sha |-> PyStr(ScenarioSha), email |-> PyStr(ScenarioEmail),
                date |-> PyStr(ScenarioDate), notes |-> PyNone,
                message |-> PyStr(ScenarioMessage)]
ScenarioPayload ==
  ScenarioSha \o <<NL>> \o ScenarioEmail \o <<NL>> \o ScenarioDate \o <<NL, NL>>
  \o ScenarioMessage
Scenario(declared) ==
  <<Piece("scenario", ScenarioRec, SizeLine(declared) \o ScenarioPayload \o <<NL>>),
    Piece("zero", PyNone, SizeLine(0))>>
ScenarioLists == {Scenario(40), Scenario(Len(ScenarioPayload))}

\* streams of particular shapes: short and long header parts, an
\* under-declared size, and well-formed frames after a second blank line
FrameA ==
  CHOOSE p \in FramePieces : p.rec.sha = PyStr(<<"a">>) /\ p.rec.email = PyStr(<<"e">>)
Blank == Piece("blank", PyNone, <<NL>>)
TwoHeaders == Piece("twoheaders", PyNone, Frame(TwoHeadersPayload))
TwoNotes == Piece("twonotes", PyNone, Frame(TwoNotesPayload))
Under == Piece("under", PyNone, UnderDeclared)
ShapeLists ==
  {<<TwoHeaders>>, <<TwoNotes, TwoHeaders>>, <<TwoHeaders, TwoNotes, FrameA>>,
   <<Under>>, <<Under, FrameA>>, <<FrameA, Under, FrameA>>,
   <<FrameA, Blank, FrameA>>, <<Blank, Blank, FrameA>>, <<Blank, FrameA, FrameA>>}

\* what parse_log may be given: the pieces (without their text) and the stream
Labels(ps) == [i \in 1..Len(ps) |-> [kind |-> ps[i].kind, rec |-> ps[i].rec]]
Inputs == {[src |-> Labels(ps), text |-> Concat(ps)] : ps \in PieceLists \cup ScenarioLists \cup ShapeLists}

\* ------------------------------------------------------------------------
\* State
\* ------------------------------------------------------------------------
VARIABLES
  git,            \* the class attribute GitRepository.git
  op,             \* the repository operation in progress, or PyNone
  todo,           \* the steps it has yet to take
  outcome,        \* how the last operation ended
  events,         \* collaborator calls of the current operation / next() call
  gen,            \* position of the parse_log generator
  self,           \* working tree of the handle parse_log was called on
  src,            \* the pieces the stream was made of
  stream,         \* the text of the stream
  pos,            \* characters of the stream consumed
  max_diff_size,
  size_to_read,
  line,           \* the line the framer examined last
  object_content, \* the frame payload handed to to_commit
  result,         \* the record to_commit is building
  tempfile_name,
  diff_size,
  written,        \* the bytes the last diff-tree process wrote
  pending,        \* the exception in flight inside the try block
  records,        \* the records yielded so far
  error,          \* the exception parse_log raised
  files,          \* the temporary files that exist: name -> content
  payloads        \* number of frame payloads read from the stream

opvars == <<op, todo, outcome>>
genvars == <<gen, self, src, stream, pos, max_diff_size, size_to_read, line,
             object_content, result, tempfile_name, diff_size, written, pending,
             records, error, files, payloads>>
vars == <<git, events, opvars, genvars>>

\* how operation "of" ended
NoOutcome == [kind |-> "none"]
Returned(of, value) == [kind |-> "returned", of |-> of, value |-> value]
Raised(of, err) == [kind |-> "raised", of |-> of, value |-> err]

Init ==
  /\ git = PyNone
  /\ op = PyNone
  /\ todo = <<>>
  /\ outcome = NoOutcome
  /\ events = <<>>
  /\ gen = "none"
  /\ self = ""
  /\ src = <<>>
  /\ stream = <<>>
  /\ pos = 0
  /\ max_diff_size = 0
  /\ size_to_read = 0
  /\ line = <<>>
  /\ object_content = <<>>
  /\ result = PyNone
  /\ tempfile_name = PyNone
  /\ diff_size = 0
  /\ written = <<>>
  /\ pending = NoError
  /\ records = <<>>
  /\ error = NoError
  /\ files = <<>>
  /\ payloads = 0

\* ------------------------------------------------------------------------
\* Calls of the repository operations
\* ------------------------------------------------------------------------
Idle == op = PyNone /\ gen = "none"

\* what the operation returns once its steps are done: "None", the stripped
\* output of its process ("out"), or its path ("path")
Call(name, working_tree, args, steps, returns) ==
  /\ Idle
  /\ op' = [name |-> name, self |-> working_tree, returns |-> returns]
  /\ todo' = steps
  /\ outcome' = NoOutcome
  /\ events' = <<[e |-> "call", name |-> name, self |-> working_tree, args |-> args]>>
  /\ UNCHANGED <<git, genvars>>

OptUrl == {PyNone, S(Url)}
OptRef == {PyNone, S("master")}

CallInit ==
  \E wt \in WorkingTrees, url \in OptUrl, remote \in {PyNone, S("origin")} :
    Call("init", wt, <<url, remote>>, init(wt, url, remote), "None")

CallCheckout ==
  \E wt \in WorkingTrees, force \in BOOLEAN :
    Call("checkout", wt, <<S("master"), force>>, checkout(S("master"), force), "None")

CallDescribe ==
  \E wt \in WorkingTrees : Call("describe", wt, <<S(HEAD)>>, describe(S(HEAD)), "out")

CallWriteLocalDiff ==
  \E wt \in WorkingTrees : Call("write_local_diff", wt, <<"stream">>,
                  write_local_diff("stream"), "None")

CallWriteDiff ==
  \E wt \in WorkingTrees : Call("write_diff", wt, <<"stream", S(HEAD)>>,
                  write_diff("stream", S(HEAD)), "None")

CallFetch ==
  \E wt \in WorkingTrees, refspec \in OptRef :
    Call("fetch", wt, <<S(Url), refspec>>, fetch(S(Url), refspec), "None")

CallUpdate ==
  \E wt \in WorkingTrees, force \in BOOLEAN :
    Call("update", wt, <<S(Url), S("master"), force>>,
         update(S(Url), S("master"), force), "None")

CallFetchGerritNotes ==
  \E wt \in WorkingTrees : Call("fetch_gerrit_notes", wt, <<S(Url)>>,
                  fetch_gerrit_notes(S(Url)), "None")

CallWriteLog ==
  \E wt \in WorkingTrees, max_count \in {0, 50}, rev_range \in {PyNone, S("a..b")},
     with_gerrit_notes \in BOOLEAN :
    Call("write_log", wt, <<"stream", max_count, rev_range, with_gerrit_notes>>,
         write_log("stream", max_count, rev_range, with_gerrit_notes), "None")

CallRevParse ==
  \E wt \in WorkingTrees : Call("rev_parse", wt, <<S(HEAD)>>, rev_parse(S(HEAD)), "out")

CallCreate ==
  \E wt \in WorkingTrees, content \in {PyNone, S("/seed")} :
    Call("create", wt, <<wt, content>>, create(wt, content), "path")

\* the operation's return statement, reached when no step is left
Return(last) ==
  Returned(op.name,
           IF op.returns = "out" THEN PyStr(Strip(last.out.val))
           ELSE IF op.returns = "path" THEN PyStr(op.self)
           ELSE PyNone)

\* a step that calls git_cmd: an error ends the operation there
GitStep ==
  /\ op # PyNone /\ todo # <<>> /\ Head(todo).t = "git_cmd"
  /\ \E found \in (IF Resolves(git) THEN WhichResults ELSE {PyNone}),
        status \in Statuses, out \in Outs :
       LET r == git_cmd(op.self, Head(todo), git, found, status, out)
       IN /\ git' = r.git
          /\ events' = events \o r.events
          /\ IF r.raised
             THEN /\ outcome' = Raised(op.name, r.value)
                  /\ todo' = <<>>
                  /\ op' = PyNone
             ELSE IF Tail(todo) = <<>>
             THEN /\ outcome' = Return(r.value)
                  /\ todo' = <<>>
                  /\ op' = PyNone
             ELSE /\ todo' = Tail(todo)
                  /\ UNCHANGED <<outcome, op>>
  /\ UNCHANGED genvars

\* a step on the file system: e3.fs.mkdir, e3.fs.sync_tree
FsStep ==
  /\ op # PyNone /\ todo # <<>> /\ Head(todo).t # "git_cmd"
  /\ events' = Append(events, [e |-> Head(todo).t, step |-> Head(todo)])
  /\ IF Tail(todo) = <<>>
     THEN /\ outcome' = Return(PyNone)
          /\ todo' = <<>>
          /\ op' = PyNone
     ELSE /\ todo' = Tail(todo)
          /\ UNCHANGED <<outcome, op>>
  /\ UNCHANGED <<git, genvars>>

\* ------------------------------------------------------------------------
\* parse_log
\* ------------------------------------------------------------------------
\* parse_log reads "a log stream generated with write_log": it is called
\* first thing (on a stream written earlier) or once write_log has returned
StreamWritten ==
  outcome = NoOutcome \/ (outcome.kind = "returned" /\ outcome.of = "write_log")

\* the call: a generator is made, nothing of the stream is read yet
CallParseLog ==
  /\ Idle
  /\ StreamWritten
  /\ \E wt \in ParseTrees, input \in Inputs, max \in MaxDiffSizes :
       /\ self' = wt
       /\ src' = input.src
       /\ stream' = input.text
       /\ max_diff_size' = max
  /\ gen' = "suspended"
  /\ pos' = 0
  /\ size_to_read' = 0
  /\ outcome' = NoOutcome
  /\ events' = <<>>
  /\ UNCHANGED <<git, op, todo, line, object_content, result, tempfile_name,
                 diff_size, written, pending, records, error, files, payloads>>

\* next(): the loop runs from the start, or from the last yield, to the
\* stream.read of the next frame
Framer ==
  /\ gen = "suspended"
  /\ LET f == NextFrame(stream, pos, AfterYield(size_to_read))
     IN /\ line' = f.line
        /\ pos' = f.pos
        /\ size_to_read' = f.size
        /\ object_content' = f.content
        /\ gen' = CASE f.exit = "frame" -> "to_commit"
                    [] f.exit = "return" -> "done"
                    [] OTHER -> "raised"
        /\ error' = IF f.exit = "ValueError" THEN ValueError("int") ELSE error
        /\ payloads' = IF f.exit = "frame" THEN payloads + 1 ELSE payloads
  /\ events' = <<>>
  /\ UNCHANGED <<git, opvars, self, src, stream, max_diff_size, result,
                 tempfile_name, diff_size, written, pending, records, files>>

\* to_commit up to "if max_diff_size > 0"; without diff capture the record is
\* returned and yielded
ToCommit ==
  /\ gen = "to_commit"
  /\ LET d == Decode(object_content)
     IN IF ~d.ok
        THEN /\ gen' = "raised"
             /\ error' = ValueError("unpack")
             /\ UNCHANGED <<result, records>>
        ELSE IF DiffWanted(max_diff_size)
        THEN /\ gen' = "mktemp"
             /\ result' = d.result
             /\ UNCHANGED <<error, records>>
        ELSE /\ gen' = "suspended"
             /\ result' = d.result
             /\ records' = Append(records, d.result)
             /\ UNCHANGED error
  /\ tempfile_name' = PyNone
  /\ pending' = NoError
  /\ UNCHANGED <<git, events, opvars, self, src, stream, pos, max_diff_size,
                 size_to_read, line, object_content, diff_size, written, files,
                 payloads>>

TempName(n) == "tmp" \o ToString(n)
CountOf(kind) == Len(SelectSeq(events, LAMBDA ev : ev.e = kind))

\* tempfile.NamedTemporaryFile(mode="wb", delete=False); tempfile_name = diff_fd.name
MkTemp ==
  /\ gen = "mktemp"
  /\ \/ LET name == TempName(Len(records) + 1)
        IN /\ files' = (name :> <<>>) @@ files
           /\ tempfile_name' = PyStr(name)
           /\ events' = Append(events, [e |-> "mktemp", name |-> name])
           /\ gen' = "write_diff"
           /\ UNCHANGED pending
     \/ /\ pending' = OSError("NamedTemporaryFile")
        /\ gen' = "finally"
        /\ UNCHANGED <<files, tempfile_name, events>>
  /\ UNCHANGED <<git, opvars, self, src, stream, pos, max_diff_size, size_to_read,
                 line, object_content, result, diff_size, written, records, error,
                 payloads>>

\* self.write_diff(diff_fd, result["sha"]); diff_fd.seek(0, 2); diff_size = diff_fd.tell()
WriteDiff ==
  /\ gen = "write_diff"
  /\ \E found \in (IF Resolves(git) THEN WhichResults ELSE {PyNone}),
        status \in Statuses :
     \E bytes \in (IF status = 0 THEN DiffBytes ELSE {<<>>}) :
       LET step == write_diff("diff_fd", S(Text(result.sha.val)))[1]
           r == git_cmd(self, step, git, found, status, <<>>)
           launched == r.git # PyNone
           data == IF launched THEN bytes ELSE <<>>
       IN /\ git' = r.git
          /\ events' = events \o r.events
          /\ files' = [files EXCEPT ![tempfile_name.val] = data]
          /\ written' = data
          /\ IF r.raised
             THEN /\ pending' = r.value
                  /\ gen' = "finally"
                  /\ UNCHANGED diff_size
             ELSE /\ diff_size' = Len(data)
                  /\ gen' = "read_back"
                  /\ UNCHANGED pending
  /\ UNCHANGED <<opvars, self, src, stream, pos, max_diff_size, size_to_read, line,
                 object_content, result, tempfile_name, records, error, payloads>>

\* with open(tempfile_name, "rb") as f: ... result["diff"] = ...
ReadBack ==
  /\ gen = "read_back"
  /\ \/ /\ result' = WithDiff(result,
                       PyStr(DiffText(files[tempfile_name.val], diff_size, max_diff_size)))
        /\ UNCHANGED pending
     \/ /\ pending' = OSError("open")
        /\ UNCHANGED result
  /\ gen' = "finally"
  /\ UNCHANGED <<git, events, opvars, self, src, stream, pos, max_diff_size,
                 size_to_read, line, object_content, tempfile_name, diff_size,
                 written, records, error, files, payloads>>

\* variant: the removal placed after the read-back instead of in a finally
\* clause, so that it is skipped when an exception is in flight
RemovesOnSuccessOnly(name, exc) == name # PyNone /\ exc = NoError

\* whether the finally clause calls e3.fs.rm, given the name and the
\* exception in flight: if tempfile_name is not None
Removes(name, exc) == name # PyNone

\* finally: if tempfile_name is not None: e3.fs.rm(tempfile_name)
\* then the exception in flight goes on, or the record is returned and yielded
Finally ==
  /\ gen = "finally"
  /\ IF Removes(tempfile_name, pending)
     THEN /\ files' = [n \in DOMAIN files \ {tempfile_name.val} |-> files[n]]
          /\ events' = Append(events, [e |-> "rm", name |-> tempfile_name.val])
     ELSE UNCHANGED <<files, events>>
  /\ IF pending # NoError
     THEN /\ gen' = "raised"
          /\ error' = pending
          /\ UNCHANGED records
     ELSE /\ gen' = "suspended"
          /\ records' = Append(records, result)
          /\ UNCHANGED error
  /\ UNCHANGED <<git, opvars, self, src, stream, pos, max_diff_size, size_to_read,
                 line, object_content, result, tempfile_name, diff_size, written,
                 pending, payloads>>

\* the same finally clause when e3.fs.rm itself raises: the file stays and
\* the exception of rm leaves to_commit
FinallyRmRaises ==
  /\ gen = "finally"
  /\ Removes(tempfile_name, pending)
  /\ events' = Append(events, [e |-> "rm", name |-> tempfile_name.val])
  /\ gen' = "raised"
  /\ error' = FSError("rm")
  /\ UNCHANGED <<git, opvars, self, src, stream, pos, max_diff_size, size_to_read,
                 line, object_content, result, tempfile_name, diff_size, written,
                 pending, records, files, payloads>>

\* ------------------------------------------------------------------------
\* Specifications
\* ------------------------------------------------------------------------
Next ==
  \/ CallInit
  \/ CallCheckout
  \/ CallDescribe
  \/ CallWriteLocalDiff
  \/ CallWriteDiff
  \/ CallFetch
  \/ CallUpdate
  \/ CallFetchGerritNotes
  \/ CallWriteLog
  \/ CallRevParse
  \/ CallCreate
  \/ GitStep
  \/ FsStep
  \/ CallParseLog
  \/ Framer
  \/ ToCommit
  \/ MkTemp
  \/ WriteDiff
  \/ ReadBack
  \/ Finally

\* the file system collaborator keeps its contract: rm removes the file
Spec == Init /\ [][Next]_vars

\* removal of the temporary file may fail
NextCleanup == Next \/ FinallyRmRaises
SpecCleanup == Init /\ [][NextCleanup]_vars

\* ------------------------------------------------------------------------
\* Properties
\* ------------------------------------------------------------------------
Exited == gen \in {"suspended", "done", "raised"}
LastOf(seq) == seq[Len(seq)]
Runs == SelectSeq(events, LAMBDA ev : ev.e = "run")

\* C1: whenever parse_log has yielded a record, has ended or has raised, no
\* temporary diff file it created still exists: the file of a capture is
\* removed after the capture returned, after write_diff raised and after the
\* read-back raised.
C1_ArtifactRemoved == Exited => DOMAIN files = {}

\* a capture whose write_diff raised: the file was made, removed, and the
\* GitError left parse_log
C1_Witness ==
  /\ gen = "raised"
  /\ error.type = "GitError"
  /\ error.origin = "git_cmd"
  /\ CountOf("mktemp") = 1
  /\ CountOf("rm") = 1
  /\ Len(Runs) = 1

\* C2: when the line at hand is no "log size " line, and when it is the line
\* "log size 0", parse_log ends normally: the generator is done, nothing is
\* raised, the last thing read from the stream is that line (no payload), and
\* every payload read before has given a yielded record.
NoSizeLine(l) == ~StartsWith(l, LogSizePrefix)
ZeroSizeLine(l) == Strip(l) = LogSizePrefix \o <<"0">>
C2_EndOfStream ==
  (gen \notin {"none", "suspended"} /\ (NoSizeLine(line) \/ ZeroSizeLine(line)))
    => /\ gen = "done"
       /\ error = NoError
       /\ SubSeq(stream, pos - Len(line) + 1, pos) = line
       /\ payloads = Len(records)

\* the stream ended by "log size 0" after one record was yielded
C2_Witness ==
  /\ gen = "done"
  /\ ZeroSizeLine(line)
  /\ Len(records) = 1
  /\ pos = Len(stream)

\* C3: round trip.  When the stream is the encoding of a list of commit
\* records (each a "log size <N>" line, the N characters of the payload and a
\* blank separator line) and max_diff_size = 0, parse_log ends normally having
\* yielded exactly the encoded records, in order, with their sha, email, date,
\* notes and message.
Encoded == \A i \in 1..Len(src) : src[i].kind = "frame"
Originals == [i \in 1..Len(src) |-> src[i].rec]
C3_RoundTrip ==
  (Encoded /\ max_diff_size = 0 /\ gen \in {"done", "raised"})
    => gen = "done" /\ records = Originals

\* C4 as written: on the stream "log size 40", the payload
\* "abc123\nuser@example.org\n2024-01-01 00:00:00 +0000\n\nHello\nWorld", a
\* blank separator line, "log size 0", parse_log yields exactly one record,
\* with sha "abc123" and message "Hello\nWorld", and then stops.
ScenarioOutcome ==
  /\ gen = "done"
  /\ error = NoError
  /\ Len(records) = 1
  /\ records[1].sha = PyStr(ScenarioSha)
  /\ records[1].message = PyStr(ScenarioMessage)
C4_ScenarioAsWritten ==
  (stream = Concat(Scenario(40)) /\ max_diff_size <= 0 /\ gen \in {"done", "raised"})
    => ScenarioOutcome

\* C4, amended: the payload is 62 characters long; on the stream that declares
\* "log size 62" parse_log yields exactly that one record and then stops, while
\* on the stream that declares 40 the 40 characters read hold no blank-line
\* separator and parse_log raises ValueError without yielding a record.
C4_Scenario ==
  /\ Len(ScenarioPayload) = 62
  /\ (stream = Concat(Scenario(62)) /\ max_diff_size <= 0 /\ gen \in {"done", "raised"})
       => ScenarioOutcome
  /\ (stream = Concat(Scenario(40)) /\ max_diff_size <= 0 /\ gen \in {"done", "raised"})
       => gen = "raised" /\ error = ValueError("unpack") /\ records = <<>>

\* the 62-character scenario parsed to its end
C4_Witness ==
  /\ stream = Concat(Scenario(62))
  /\ max_diff_size = 0
  /\ gen = "done"
  /\ Len(records) = 1
  /\ pos = Len(stream)

\* C5: a git_cmd call whose process exits with a non-zero status raises a
\* GitError whose message holds the command line and the exit status and which
\* carries the process; the error ends the operation that issued the command
\* (repository operation or parse_log); the process is launched exactly once
\* per git_cmd call; with exit status 0 the process is returned and no error
\* is raised.
CommandFailed(p) ==
  [type |-> "GitError",
   message |-> command_line_image(p.cmd) \o " failed (exit status: "
               \o ToString(p.status) \o ")",
   origin |-> "git_cmd",
   process |-> p]
NotFound ==
  [type |-> "GitError", message |-> "cannot find git", origin |-> "git_cmd",
   process |-> PyNone]
C5_CommandFailed ==
  /\ \* one launch per call, none when the binary is not found
     Len(Runs) <= CountOf("git_cmd")
  /\ Len(Runs) < CountOf("git_cmd")
       => \/ outcome.kind = "raised" /\ outcome.value = NotFound
          \/ pending = NotFound
  /\ \* a failed process is the last one launched by the operation
     \A i \in 1..Len(Runs) : Runs[i].status # 0 => i = Len(Runs)
  /\ \* a finished repository operation
     (gen = "none" /\ op = PyNone /\ Runs # <<>>)
       => IF LastOf(Runs).status # 0
          THEN outcome.kind = "raised" /\ outcome.value = CommandFailed(LastOf(Runs))
          ELSE outcome.kind = "returned"
  /\ \* a repository operation under way has seen no failure
     (op # PyNone /\ Runs # <<>>) => LastOf(Runs).status = 0
  /\ \* parse_log, whose write_diff calls git_cmd
     (gen \in {"finally", "raised"} /\ Runs # <<>> /\ LastOf(Runs).status # 0)
       => pending = CommandFailed(LastOf(Runs))
  /\ (gen = "raised" /\ Runs # <<>> /\ LastOf(Runs).status # 0)
       => error = CommandFailed(LastOf(Runs))
  /\ (gen \in {"read_back", "suspended"} /\ Runs # <<>>)
       => LastOf(Runs).status = 0 /\ pending = NoError

\* update whose fetch was killed: one launch, the GitError of that process
C5_Witness ==
  /\ outcome.kind = "raised"
  /\ outcome.of = "update"
  /\ Len(Runs) = 1
  /\ Runs[1].status = 0 - 9
  /\ outcome.value.message =
       "/usr/bin/git fetch ssh://host/repo master failed (exit status: -9)"

\* C6: with max_diff_size > 0 the diff of a yielded record is the text of the
\* first min(size, max_diff_size) bytes that diff-tree wrote for the record's
\* sha, followed by "\n... diff too long ...\n" if and only if size is
\* strictly greater than max_diff_size.
MinOf(a, b) == IF a < b THEN a ELSE b
Marker == <<NL, ".", ".", ".", SP, "d", "i", "f", "f", SP, "t", "o", "o", SP,
            "l", "o", "n", "g", SP, ".", ".", ".", NL>>
C6_DiffTruncation ==
  (gen = "suspended" /\ records # <<>> /\ max_diff_size > 0)
    => LET r == LastOf(records)
           size == Len(written)
           kept == MinOf(size, max_diff_size)
           head == [i \in 1..kept |-> ByteChar(written[i])]
       IN /\ LastOf(LastOf(Runs).cmd) = Text(r.sha.val)
          /\ r.diff = PyStr(IF size > max_diff_size THEN head \o Marker ELSE head)

\* a diff longer than max_diff_size, cut and marked
C6_Witness ==
  /\ gen = "suspended"
  /\ records # <<>>
  /\ max_diff_size > 0
  /\ Len(written) > max_diff_size
  /\ Len(LastOf(records).diff.val) = max_diff_size + Len(Marker)

\* C7: with max_diff_size <= 0 parse_log never captures a diff: git_cmd is not
\* called, no temporary file is made and no yielded record has a "diff" key;
\* with max_diff_size > 0 every yielded record has one.
C7_DiffOnlyWhenAsked ==
  gen # "none"
    => IF max_diff_size <= 0
       THEN /\ events = <<>>
            /\ DOMAIN files = {}
            /\ tempfile_name = PyNone
            /\ \A i \in 1..Len(records) : ~HasDiff(records[i])
       ELSE \A i \in 1..Len(records) : HasDiff(records[i])

\* two records parsed with max_diff_size = 0
C7_Witness ==
  /\ gen = "done"
  /\ max_diff_size = 0
  /\ Len(records) = 2

\* C8: a frame whose notes block has a line without ": " is yielded with
\* notes = None and with the sha, email, date and message of the frame;
\* nothing is raised for it and the frames after it are parsed.
FrameLike(k) == k \in {"frame", "badnotes"}
C8_MalformedNotes ==
  /\ \A i \in 1..Len(records) :
       ((\A j \in 1..i : FrameLike(src[j].kind)) /\ src[i].kind = "badnotes")
         => /\ records[i].notes = PyNone
            /\ records[i].sha = src[i].rec.sha
            /\ records[i].email = src[i].rec.email
            /\ records[i].date = src[i].rec.date
            /\ records[i].message = src[i].rec.message
  /\ ((\A j \in 1..Len(src) : FrameLike(src[j].kind))
      /\ max_diff_size <= 0 /\ gen \in {"done", "raised"})
       => gen = "done" /\ Len(records) = Len(src)

\* a frame with malformed notes, then a well-formed one, both yielded
C8_Witness ==
  /\ gen = "done"
  /\ Len(src) = 2
  /\ src[1].kind = "badnotes"
  /\ src[2].kind = "frame"
  /\ Len(records) = 2
  /\ records[1].notes = PyNone

\* C9: a frame payload without blank-line separator makes parse_log raise
\* (the ValueError of the unpacking) instead of yielding a record, before any
\* diff capture: no temporary file is made and git_cmd is not called for it.
HasSeparator(text) == \E i \in 1..(Len(text) - 1) : text[i] = NL /\ text[i + 1] = NL
C9_MalformedFrame ==
  (size_to_read > 0 /\ gen # "to_commit" /\ ~HasSeparator(object_content))
    => /\ gen = "raised"
       /\ error = ValueError("unpack")
       /\ events = <<>>
       /\ DOMAIN files = {}
       /\ Len(records) = payloads - 1

\* with diff capture on, the second frame has no separator
C9_Witness ==
  /\ gen = "raised"
  /\ error = ValueError("unpack")
  /\ max_diff_size > 0
  /\ Len(records) = 1
  /\ ~HasSeparator(object_content)

\* C10: when the removal of the temporary file fails, the outcome of the
\* capture still reaches the caller: the error raised by write_diff or by the
\* read-back is the one parse_log raises, and a record whose capture succeeded
\* is yielded.
C10_CleanupDoesNotMask ==
  (gen = "raised" /\ CountOf("mktemp") = 1)
    => pending # NoError /\ error = pending

\* C11: the class attribute git is written at most once.  Once it holds a
\* path no step changes it and no git_cmd call looks the binary up again; and
\* every process launched, on whichever handle, has the cached path as the
\* first word of its command vector.
C11_CachedOnce ==
  [][/\ git # PyNone => git' = git
     /\ git # PyNone => CountOf("which")' <= CountOf("which")
     /\ \A i \in 1..Len(Runs') : Runs'[i].cmd[1] = git'.val]_vars

\* a second handle runs two commands on the cached path without a lookup
C11_Witness ==
  /\ git = PyStr("C:/Git/git.exe")
  /\ CountOf("which") = 0
  /\ Len(Runs) = 2
  /\ \A i \in 1..2 : Runs[i].cwd = "/r2" /\ Runs[i].cmd[1] = "C:/Git/git.exe"

\* C12: when which() finds no binary, the git_cmd call raises
\* GitError("cannot find git") at once: no process is launched by that call
\* (nor any later command issued by the operation), the class attribute stays
\* None, and the error is what the operation, or parse_log, raises.
CannotFindGit == GitError("cannot find git", "git_cmd", PyNone)
NotFoundAt(i) == events[i].e = "which" /\ events[i].found = PyNone
C12_BinaryNotFound ==
  \A i \in 1..Len(events) :
    NotFoundAt(i) =>
      /\ git = PyNone
      /\ \A j \in (i + 1)..Len(events) : events[j].e \notin {"run", "git_cmd", "which"}
      /\ Runs = <<>>
      /\ op = PyNone
      /\ gen = "none" => outcome.kind = "raised" /\ outcome.value = CannotFindGit
      /\ gen # "none" => gen \in {"finally", "raised"} /\ pending = CannotFindGit
      /\ gen = "raised" => error = CannotFindGit

\* create with seed content stopped at its first command, after the mkdir
C12_Witness ==
  /\ Len(events) = 4
  /\ events[2].e = "mkdir"
  /\ NotFoundAt(4)
  /\ outcome = Raised("create", CannotFindGit)

\* C13: the error a caller receives tells by its type which of the three
\* failures happened: the type of a binary-not-found error, of a
\* command-failed error and of a decode error are pairwise different.
VisibleError ==
  IF gen = "raised" THEN error
  ELSE IF gen = "none" /\ outcome.kind = "raised" THEN outcome.value
  ELSE NoError
Cause ==
  IF \E i \in 1..Len(events) : NotFoundAt(i) THEN "binary-not-found"
  ELSE IF Runs # <<>> /\ LastOf(Runs).status # 0 THEN "command-failed"
  ELSE IF VisibleError = ValueError("unpack") THEN "decode-error"
  ELSE "other"
\* the types git_cmd and to_commit raise for each failure
NotFoundType ==
  git_cmd("/r1", describe(S(HEAD))[1], PyNone, PyNone, 0, <<>>).value.type
CommandFailedType ==
  git_cmd("/r1", describe(S(HEAD))[1], PyStr(UnixGit), PyNone, 1, <<>>).value.type
DecodeErrorType == ValueError("unpack").type
C13_TypedErrors ==
  VisibleError # NoError =>
    /\ Cause = "binary-not-found"
         => VisibleError.type \notin {CommandFailedType, DecodeErrorType}
    /\ Cause = "command-failed"
         => VisibleError.type \notin {NotFoundType, DecodeErrorType}
    /\ Cause = "decode-error"
         => VisibleError.type \notin {NotFoundType, CommandFailedType}

\* C14: the command vector of every process launched is the git binary
\* followed by exactly the entries of the argument list that are not None, in
\* the order of the list: none dropped, none repeated, no None among them.
RECURSIVE KeepsPresent(_, _)
KeepsPresent(cmd, words) ==
  IF cmd = <<>> THEN words = <<>>
  ELSE IF Head(cmd) = PyNone THEN KeepsPresent(Tail(cmd), words)
  ELSE /\ words # <<>>
       /\ Head(words) = Head(cmd).val
       /\ KeepsPresent(Tail(cmd), Tail(words))
\* the git_cmd call that launched the process at events[i]
CallOf(i) == events[SetMax({k \in 1..i : events[k].e = "git_cmd"})]
C14_PresentArguments ==
  \A i \in 1..Len(events) :
    events[i].e = "run" =>
      /\ Head(events[i].cmd) = git.val
      /\ KeepsPresent(CallOf(i).cmd, Tail(events[i].cmd))
      /\ events[i].cwd = CallOf(i).self

\* write_log(stream, max_count=0) without notes and without a range: three
\* entries of six are None
C14_Witness ==
  /\ Len(Runs) = 1
  /\ Len(Runs[1].cmd) = 4
  /\ \E i \in 1..Len(events) :
       /\ events[i].e = "run"
       /\ Len(CallOf(i).cmd) = 6
       /\ CallOf(i).cmd[4] = PyNone /\ CallOf(i).cmd[5] = PyNone /\ CallOf(i).cmd[6] = PyNone

\* C15: update(url, refspec, force) launches "fetch <url> <refspec>" first
\* and, only once that process has exited with status 0, "checkout -q [-f]
\* FETCH_HEAD" with -f exactly when force is set; if the fetch fails its
\* GitError is what update raises and no checkout is launched.
Called(name) == events # <<>> /\ events[1].e = "call" /\ events[1].name = name
CheckoutWords(force) ==
  <<"checkout", "-q">> \o (IF force THEN <<"-f">> ELSE <<>>) \o <<FETCH_HEAD>>
C15_UpdateOrder ==
  Called("update") =>
    LET force == events[1].args[3]
        n == Len(Runs)
    IN /\ n <= 2 /\ CountOf("git_cmd") <= 2
       /\ n >= 1 => Tail(Runs[1].cmd) = <<"fetch", Url, "master">>
       /\ n = 2 => /\ Runs[1].status = 0
                   /\ Tail(Runs[2].cmd) = CheckoutWords(force)
       /\ (n >= 1 /\ Runs[1].status # 0)
            => n = 1 /\ outcome = Raised("update", CommandFailed(Runs[1]))
       /\ outcome.kind = "returned" => n = 2 /\ Runs[2].status = 0

\* a forced update whose fetch and checkout both succeeded
C15_Witness ==
  /\ Called("update")
  /\ events[1].args[3]
  /\ Len(Runs) = 2
  /\ LastOf(Runs).cmd[4] = "-f"
  /\ outcome = Returned("update", PyNone)

\* C17: create(path, seed) takes its steps in one order and stops at the
\* first command that fails: mkdir and "init -q" and the mkdir of
\* .git/logs/refs; then, only with seed content, the copy that leaves out
\* .git, "add -A", the two "config" commands and one "commit -m 'initial
\* content'".  A failed command is the last step taken and its GitError is
\* raised; without seed content no add, config or commit is launched; create
\* returns the path once every step is done.
StepImage(ev) ==
  IF ev.e = "run" THEN [k |-> "run", w |-> Tail(ev.cmd)]
  ELSE IF ev.e = "mkdir" THEN [k |-> "mkdir", w |-> <<ev.step.path>>]
  ELSE [k |-> "sync_tree", w |-> <<ev.step.source, ev.step.target>> \o ev.step.ignore]
StepsTaken ==
  LET evs == SelectSeq(events, LAMBDA ev : ev.e \in {"run", "mkdir", "sync_tree"})
  IN [i \in 1..Len(evs) |-> StepImage(evs[i])]
CreateSteps(path, seed) ==
  <<[k |-> "mkdir", w |-> <<path>>],
    [k |-> "run", w |-> <<"init", "-q">>],
    [k |-> "mkdir", w |-> <<path \o "/.git/logs/refs">>]>>
  \o (IF seed = PyNone THEN <<>>
      ELSE <<[k |-> "sync_tree", w |-> <<seed.val, path, ".git">>],
             [k |-> "run", w |-> <<"add", "-A">>],
             [k |-> "run", w |-> <<"config", "user.email", "e3-core@example.net">>],
             [k |-> "run", w |-> <<"config", "user.name", "e3 core">>],
             [k |-> "run", w |-> <<"commit", "-m", "initial content">>]>>)
C17_CreateOrder ==
  Called("create") =>
    LET path == events[1].args[1]
        expected == CreateSteps(path, events[1].args[2])
        n == Len(StepsTaken)
    IN /\ n <= Len(expected)
       /\ StepsTaken = SubSeq(expected, 1, n)
       /\ \A i \in 1..Len(Runs) : Runs[i].status # 0 => i = Len(Runs)
       /\ (Runs # <<>> /\ LastOf(Runs).status # 0)
            => /\ LastOf(StepsTaken).k = "run"
               /\ outcome = Raised("create", CommandFailed(LastOf(Runs)))
       /\ outcome.kind = "returned"
            => n = Len(expected) /\ outcome = Returned("create", PyStr(path))

\* create with seed content stopped by a failing "config user.email"
C17_Witness ==
  /\ Called("create")
  /\ Len(StepsTaken) = 6
  /\ LastOf(Runs).cmd[3] = "user.email"
  /\ LastOf(Runs).status = 1
  /\ outcome.kind = "raised"

\* C16: parse_log reads lazily and only forward.  The call itself reads
\* nothing; the position in the stream never goes back and moves only when
\* the suspended generator is resumed; and when record k has been yielded the
\* last things read are the size line of frame k and its payload, the
\* declared number of characters (or what was left of the stream), so that
\* nothing after that payload has been read.  For a stream of well-formed
\* frames that is all of frames 1..k except the separator line closing
\* frame k.
RECURSIVE FramesLen(_)
FramesLen(labels) ==
  IF labels = <<>> THEN 0
  ELSE Len(Frame(Payload(Head(labels).rec))) + FramesLen(Tail(labels))
JustYielded == gen = "suspended" /\ records # <<>>
ConsumedThroughPayload ==
  LET n == Len(object_content)
      start == pos - n
  IN /\ StartsWith(line, LogSizePrefix)
     /\ size_to_read = PyInt(LastWord(line)).val
     /\ n = MinOf(size_to_read, Len(stream) - start)
     /\ SubSeq(stream, start + 1, pos) = object_content
     /\ SubSeq(stream, start - Len(line) + 1, start) = line
     /\ LET k == Len(records)
        IN (k <= Len(src) /\ \A i \in 1..k : src[i].kind = "frame")
             => pos = FramesLen(SubSeq(src, 1, k)) - 1
C16_LazyForwardOnly ==
  /\ []((gen = "suspended" /\ records = <<>>) => pos = 0)
  /\ [](JustYielded => ConsumedThroughPayload)
  /\ [][pos' >= pos /\ (pos' # pos => gen = "suspended")]_vars

\* the first of two frames yielded, the second still unread
C16_Witness ==
  /\ JustYielded
  /\ Len(records) = 1
  /\ Len(src) = 2 /\ src[1].kind = "frame" /\ src[2].kind = "frame"
  /\ pos = FramesLen(SubSeq(src, 1, 1)) - 1
  /\ pos < Len(stream) - FramesLen(SubSeq(src, 2, 2))

\* C18: the header part of a payload is decoded by position.  With k lines
\* in it, sha, email and date are the first, second and third line, None
\* where k is smaller, and nothing is raised; notes is None up to three
\* lines, and from four on every line after the third is a line of the notes
\* block (each one an entry of the notes dictionary, unless the block is
\* malformed and notes is None); the message is what follows the first blank
\* line.  Every record has the keys sha, email, date, notes and message, and
\* diff exactly when max_diff_size > 0.
RecordKeys == {"sha", "email", "date", "notes", "message"}
HeaderLines(payload) ==
  LET cut == Find(payload, <<NL, NL>>)
      headers == Remove(Take(payload, cut - 1), CR)
  IN Split(headers, <<NL>>, Len(headers))
LineOrNone(hl, i) == IF i <= Len(hl) THEN PyStr(hl[i]) ELSE PyNone
IsNotesOf(notes, hl) ==
  \/ notes = PyNone
  \/ /\ notes.kind = "dict"
     /\ \A i \in 4..Len(hl) :
          \E key \in DOMAIN notes.val : StartsWith(hl[i], key \o <<":", SP>>)
     /\ \A key \in DOMAIN notes.val :
          \E i \in 4..Len(hl) : hl[i] = key \o <<":", SP>> \o notes.val[key]
Decoded ==
  /\ result # PyNone
  /\ gen \in {"mktemp", "write_diff", "read_back", "finally", "suspended"}
C18_PositionalHeaders ==
  /\ Decoded =>
       LET hl == HeaderLines(object_content)
       IN /\ DOMAIN result \in {RecordKeys, RecordKeys \cup {"diff"}}
          /\ result.sha = LineOrNone(hl, 1)
          /\ result.email = LineOrNone(hl, 2)
          /\ result.date = LineOrNone(hl, 3)
          /\ Len(hl) <= 3 => result.notes = PyNone
          /\ Len(hl) >= 4 => IsNotesOf(result.notes, hl)
          /\ result.message =
               PyStr(Drop(object_content, Find(object_content, <<NL, NL>>) + 1))
  /\ \A i \in 1..Len(records) :
       DOMAIN records[i] =
         RecordKeys \cup (IF max_diff_size > 0 THEN {"diff"} ELSE {})

\* records of one, two, three and five header lines have been yielded
HeaderCountYielded(k) ==
  /\ JustYielded
  /\ Len(HeaderLines(object_content)) = k
  /\ LastOf(records).sha # PyNone
C18_Witness ==
  /\ HeaderCountYielded(2)
  /\ LastOf(records).email = PyStr(<<"e">>)
  /\ LastOf(records).date = PyNone
  /\ LastOf(records).notes = PyNone

\* C19: the framer does not look for the next size line.  Before a frame it
\* skips one blank line at most; when the line it then has does not start
\* with "log size " (a second blank line, what an under-declared size left
\* of a payload, any other text) parse_log ends without error, and the
\* well-formed frames further on in the stream are never yielded; the size
\* of a frame serves for that frame only.  So the records yielded are those
\* of the frames that follow one another from the start of the stream (after
\* one blank line at most), and no others.
FrameKinds == {"frame", "badnotes", "twoheaders", "twonotes"}
RECURSIVE Yields(_)
Yields(labels) ==
  IF labels = <<>> THEN 0
  ELSE IF Head(labels).kind \in FrameKinds THEN 1 + Yields(Tail(labels))
  ELSE IF Head(labels).kind = "under" THEN 1
  ELSE 0
ExpectedYield ==
  Yields(IF src # <<>> /\ Head(src).kind = "blank" THEN Tail(src) ELSE src)
LineAtHand == gen # "none" /\ ~(gen = "suspended" /\ records = <<>>)
C19_NoResynchronisation ==
  (\A i \in 1..Len(src) : src[i].kind # "scenario") =>
    /\ Len(records) <= ExpectedYield
    /\ payloads <= ExpectedYield + 1
    /\ gen = "done" => Len(records) = ExpectedYield /\ error = NoError
    /\ (LineAtHand /\ ~StartsWith(line, LogSizePrefix))
         => gen = "done" /\ payloads = Len(records)

\* the record of an under-declared frame yielded, the stream ended at the
\* rest of its payload, the well-formed frame after it never read
C19_Witness ==
  /\ gen = "done"
  /\ Len(src) = 2 /\ src[1].kind = "under" /\ src[2].kind = "frame"
  /\ Len(records) = 1
  /\ line = <<"x", NL>>
  /\ pos < Len(stream)
=========================================================================
